---- MODULE Spec2Model ----
(***************************************************************************)
(* A model of flash_lib (src/src/flash_lib.c): the sector header protocol, *)
(* the logical -> physical resolution, the randomized allocator, the       *)
(* boot-time initialisation and the erase / delete paths.                  *)
(*                                                                         *)
(* Flash is a function from physical sector indices to the decoded         *)
(* contents of the sector: the four header fields at their real widths     *)
(* and one representative payload byte.  Erasing sets every bit, and       *)
(* programming can only clear bits (bitwise AND with the page buffer).     *)
(***************************************************************************)
EXTENDS Integers, Sequences, FiniteSets, TLC

(***************************************************************************)
(* Program constants                                                       *)
(***************************************************************************)
\* 0x27062021.  A 32-bit word is held as its two 16-bit halves <<high, low>>
\* (the model checker's integers are 32-bit signed).
MEMORY_SIGNATURE == <<9990, 8225>>

FLASH_SECTOR_SIZE == 4096

FLASH_PAGE_SIZE == 256

GROUP_BY_1 == 1

(***************************************************************************)
(* Bounds of the model                                                     *)
(***************************************************************************)
\* physical sectors 0 .. NumSectors-1 can be owned by the library
NumSectors == 3

\* largest lower_bound passed to init_flash_lib
MaxLower == 1

\* largest logical_sectors_count passed to init_flash_lib
MaxCount == 3

\* erase operations are issued on headers whose writeCount is below this
MaxWriteCount == 2

\* the group_by values passed to init_flash_lib
GroupBys == {GROUP_BY_1, 2}

MaxGroupBy == CHOOSE g \in GroupBys : \A h \in GroupBys : h <= g

U8 == 256

U16 == 65536

\* the 32-bit word with every bit set
AllOnes32 == <<U16 - 1, U16 - 1>>

\* The sector indices the code can reach.  get_physical_sector_from_logical_id
\* advances a sector INDEX by FLASH_SECTOR_SIZE, up to group_by times, so the
\* sectors  b + k * 4096  are part of the flash the program touches.
BaseSectors == 0 .. (NumSectors - 1)

AllSectors == { b + k * FLASH_SECTOR_SIZE : b \in BaseSectors, k \in 0 .. MaxGroupBy }

(***************************************************************************)
(* Sector contents                                                         *)
(***************************************************************************)
\* struct SectorHeader: signature u32, logicalID u16, writeCount u16, id u8
SectorHeader(sig, lid, wc, sub) ==
    [signature |-> sig, logicalID |-> lid, writeCount |-> wc, id |-> sub]

\* a sector after flash_range_erase: all bits set
ErasedSector ==
    [signature |-> AllOnes32, logicalID |-> U16 - 1, writeCount |-> U16 - 1,
     id |-> U8 - 1, payload |-> U8 - 1]

RECURSIVE BitAnd(_, _)
BitAnd(a, b) ==
    IF a = 0 \/ b = 0 THEN 0
    ELSE IF a = b THEN a
    ELSE (a % 2) * (b % 2) + 2 * BitAnd(a \div 2, b \div 2)

(***************************************************************************)
(* The machine an operation runs on: the flash contents, the log of the    *)
(* driver / interrupt calls the operation has issued so far, whether the   *)
(* operation has used an indeterminate value (ub), and whether interrupts  *)
(* are enabled (irq).  Every logged call carries the interrupt state it    *)
(* was issued in (masked).                                                 *)
(***************************************************************************)
Call(c, a, l) == [call |-> c, addr |-> a, len |-> l]

\* nothing is issued once the power is gone
Logged(m, c) ==
    IF m.lost THEN m.calls
    ELSE Append(m.calls, [call |-> c.call, addr |-> c.addr, len |-> c.len,
                          masked |-> ~m.irq])

\* The supply: budget is the number of flash driver calls the device still
\* executes before the power is cut (NoCut: it stays on); lost is set when a
\* driver call is reached after the last one the device executed.
NoCut == 0 - 1

Spend(m) == IF m.budget > 0 THEN m.budget - 1 ELSE m.budget

PowerCut(m) == [m EXCEPT !.lost = TRUE]

\* interrupts are enabled when the processor leaves reset
Machine(f) == [flash |-> f, calls |-> << >>, ub |-> FALSE, irq |-> TRUE,
               budget |-> NoCut, lost |-> FALSE]

\* an indeterminate value is passed to the next driver call: it counts when
\* that call is executed
Indeterminate(m, used) == [m EXCEPT !.ub = @ \/ (used /\ m.budget # 0)]

\* save_and_disable_interrupts(): interrupts are masked; the value it returns
\* (the state before the call) is what the caller reads as m.irq beforehand
save_and_disable_interrupts(m) ==
    [m EXCEPT !.calls = Logged(m, Call("irq_off", 0, 0)), !.irq = FALSE]

\* Fault injection for C11: interrupts are switched on instead of being
\* restored to the saved state.
EnableInterrupts(m, irq_status) ==
    [m EXCEPT !.calls = Logged(m, Call("irq_on", 0, 0)), !.irq = TRUE]

\* restore_interrupts(irq_status)
restore_interrupts(m, irq_status) ==
    [m EXCEPT !.calls = Logged(m, Call("irq_on", 0, 0)), !.irq = irq_status]

\* flash_range_erase(addr, len): every sector in the byte span reads 0xFF
flash_range_erase(m, addr, len) ==
    IF m.budget = 0 THEN PowerCut(m) ELSE
    [flash |-> [s \in DOMAIN m.flash |->
                  IF addr <= s * FLASH_SECTOR_SIZE /\ s * FLASH_SECTOR_SIZE < addr + len
                  THEN ErasedSector ELSE m.flash[s]],
     calls |-> Logged(m, Call("erase", addr, len)),
     ub |-> m.ub,
     irq |-> m.irq,
     budget |-> Spend(m),
     lost |-> FALSE]

\* prepare_buffer_to_write: a page of 0xFF with the header bytes at offset 0
prepare_buffer_to_write(hdr) ==
    [signature |-> hdr.signature, logicalID |-> hdr.logicalID,
     writeCount |-> hdr.writeCount, id |-> hdr.id, payload |-> U8 - 1]

\* flash_range_program(addr, buffer, FLASH_PAGE_SIZE): bits are only cleared
ProgramSector(old, buf) ==
    [signature  |-> <<BitAnd(old.signature[1], buf.signature[1]),
                      BitAnd(old.signature[2], buf.signature[2])>>,
     logicalID  |-> BitAnd(old.logicalID, buf.logicalID),
     writeCount |-> BitAnd(old.writeCount, buf.writeCount),
     id         |-> BitAnd(old.id, buf.id),
     payload    |-> BitAnd(old.payload, buf.payload)]

flash_range_program(m, addr, buf) ==
    LET s == addr \div FLASH_SECTOR_SIZE IN
    IF m.budget = 0 THEN PowerCut(m) ELSE
    [flash |-> IF s \in DOMAIN m.flash
               THEN [m.flash EXCEPT ![s] = ProgramSector(@, buf)]
               ELSE m.flash,
     calls |-> Logged(m, Call("program", addr, FLASH_PAGE_SIZE)),
     ub |-> m.ub,
     irq |-> m.irq,
     budget |-> Spend(m),
     lost |-> FALSE]

\* uint32 arithmetic; the sector indices of the model keep it far below 2^32
get_memory_addr_from_physical_sector(physical_sector) ==
    physical_sector * FLASH_SECTOR_SIZE

(***************************************************************************)
(* Sector scanner and resolver                                             *)
(***************************************************************************)
Config(lower, count, g) ==
    [lower |-> lower, upper |-> lower + count * g, count |-> count, group_by |-> g]

\* attribute 0: signature, 1: logicalID, 2: writeCount, other: id
get_header_attribute_from_sector(f, physical_sector, attribute_id) ==
    IF attribute_id = 0 THEN f[physical_sector].signature
    ELSE IF attribute_id = 1 THEN f[physical_sector].logicalID
    ELSE IF attribute_id = 2 THEN f[physical_sector].writeCount
    ELSE f[physical_sector].id

check_sector_signature(f, physical_sector) ==
    get_header_attribute_from_sector(f, physical_sector, 0) = MEMORY_SIGNATURE

\* Fault injection for C15: a scan that visits every sector instead of the
\* first sector of every group (physical_sector++).
RECURSIVE ScanEverySector(_, _, _, _)
ScanEverySector(f, cfg, logical_id, physical_sector) ==
    IF physical_sector >= cfg.upper THEN [found |-> FALSE, addr |-> 0]
    ELSE IF ~check_sector_signature(f, physical_sector)
         THEN ScanEverySector(f, cfg, logical_id, physical_sector + 1)
    ELSE IF get_header_attribute_from_sector(f, physical_sector, 1) = logical_id
         THEN [found |-> TRUE, addr |-> physical_sector]
    ELSE ScanEverySector(f, cfg, logical_id, physical_sector + 1)

\* the loop of get_first_sector_from_logical_id, from physical_sector on
RECURSIVE FirstSectorScan(_, _, _, _)
FirstSectorScan(f, cfg, logical_id, physical_sector) ==
    IF physical_sector >= cfg.upper THEN [found |-> FALSE, addr |-> 0]
    ELSE IF ~check_sector_signature(f, physical_sector)
         THEN FirstSectorScan(f, cfg, logical_id, physical_sector + cfg.group_by)
    ELSE IF get_header_attribute_from_sector(f, physical_sector, 1) = logical_id
         THEN [found |-> TRUE, addr |-> physical_sector]
    ELSE FirstSectorScan(f, cfg, logical_id, physical_sector + cfg.group_by)

\* found: the return value; addr: what *physical_addr holds when found
\* (when not found, *physical_addr is not written)
get_first_sector_from_logical_id(f, cfg, logical_id) ==
    FirstSectorScan(f, cfg, logical_id, cfg.lower)

\* The loop of get_physical_sector_from_logical_id: compare the id field of
\* the candidate, otherwise advance the sector index by FLASH_SECTOR_SIZE.
RECURSIVE SubSectorWalk(_, _, _, _, _)
SubSectorWalk(f, physical_sector, physical_sector_id, i, g) ==
    IF i >= g THEN physical_sector
    ELSE IF get_header_attribute_from_sector(f, physical_sector, 3) = physical_sector_id
         THEN physical_sector
    ELSE SubSectorWalk(f, physical_sector + FLASH_SECTOR_SIZE,
                       physical_sector_id, i + 1, g)

\* The local physical_sector is not initialised and is written only when the
\* representative is found: on a miss the walk starts from an indeterminate
\* value, junk.
get_physical_sector_from_logical_id(f, cfg, logical_id, physical_sector_id, junk) ==
    LET first == get_first_sector_from_logical_id(f, cfg, logical_id)
        start == IF first.found THEN first.addr ELSE junk
    IN [found |-> first.found,
        addr  |-> SubSectorWalk(f, start, physical_sector_id, 0, cfg.group_by)]

\* read_and_update_header: copy the header out of flash, writeCount++ (u16)
read_and_update_header(f, physical_sector_id) ==
    SectorHeader(f[physical_sector_id].signature,
                 f[physical_sector_id].logicalID,
                 (f[physical_sector_id].writeCount + 1) % U16,
                 f[physical_sector_id].id)

(***************************************************************************)
(* Reader                                                                  *)
(***************************************************************************)
\* read_sector(logical_sector, offset_bytes): the pointer it returns, as an
\* offset from XIP_BASE.  The intra-sector offset is added to the sector
\* index before the index is turned into an address.  junk is the
\* indeterminate start of the resolver's walk on a miss.
read_sector(f, cfg, logical_sector, offset_bytes, junk) ==
    LET physical_sector_id == offset_bytes \div FLASH_SECTOR_SIZE
        physical_sector_offset == offset_bytes % FLASH_SECTOR_SIZE
        physical_sector_address ==
            get_physical_sector_from_logical_id(f, cfg, logical_sector,
                                                physical_sector_id % U8, junk).addr
    IN get_memory_addr_from_physical_sector(physical_sector_address + physical_sector_offset)

(***************************************************************************)
(* Allocator                                                               *)
(***************************************************************************)
NoSector == 0 - 1

\* "Check upwards": uint16 physical_sector from the start to _upper_bound
RECURSIVE ScanUp(_, _, _)
ScanUp(f, cfg, physical_sector) ==
    IF physical_sector >= cfg.upper \/ physical_sector \notin DOMAIN f THEN NoSector
    ELSE IF ~check_sector_signature(f, physical_sector) THEN physical_sector
    ELSE ScanUp(f, cfg, (physical_sector + 1) % U16)

\* Fault injection for C7: a downward scan that stops one sector short of
\* _lower_bound (physical_sector > _lower_bound as the loop condition).
RECURSIVE ScanDownStopsShort(_, _, _)
ScanDownStopsShort(f, cfg, physical_sector) ==
    IF physical_sector <= cfg.lower \/ physical_sector \notin DOMAIN f THEN NoSector
    ELSE IF ~check_sector_signature(f, physical_sector) THEN physical_sector
    ELSE ScanDownStopsShort(f, cfg, (physical_sector - 1) % U16)

\* "Check downwards": uint16 physical_sector from start - 1 while >= _lower_bound
\* (with _lower_bound = 0 the counter wraps to 65535 and leaves the flash
\* the model holds: reported as NoSector, like the fall off the end)
RECURSIVE ScanDown(_, _, _)
ScanDown(f, cfg, physical_sector) ==
    IF physical_sector < cfg.lower \/ physical_sector \notin DOMAIN f THEN NoSector
    ELSE IF ~check_sector_signature(f, physical_sector) THEN physical_sector
    ELSE ScanDown(f, cfg, (physical_sector - 1) % U16)

\* the sectors of the address space whose signature is not the magic value
FreeSectorsOf(f, cfg) ==
    { p \in cfg.lower .. (cfg.upper - 1) : ~check_sector_signature(f, p) }

\* neither scan of _get_random_physical_sector finds a free sector
NoFreeSector(f, cfg, r) ==
    LET random_physical_sector == (r + cfg.lower) % U16 IN
    /\ ScanUp(f, cfg, random_physical_sector) = NoSector
    /\ ScanDown(f, cfg, (random_physical_sector - 1) % U16) = NoSector

\* Fault injection for C4: an allocator that returns the random start without
\* looking at its signature.
AllocatorReturnsStart(f, cfg, r, junk) == (r + cfg.lower) % U16

\* r is rand() % (_upper_bound - _lower_bound).  When neither scan finds a
\* free sector the function returns without a value: junk.
_get_random_physical_sector(f, cfg, r, junk) ==
    LET random_physical_sector == (r + cfg.lower) % U16
        up   == ScanUp(f, cfg, random_physical_sector)
        down == ScanDown(f, cfg, (random_physical_sector - 1) % U16)
    IN IF up # NoSector THEN up
       ELSE IF down # NoSector THEN down
       ELSE junk

(***************************************************************************)
(* Writers                                                                 *)
(***************************************************************************)
\* Fault injection for C21: a write that programs the page without erasing
\* the sector first.
WriteWithoutErase(m, physical_sector_address, data) ==
    LET addr == get_memory_addr_from_physical_sector(physical_sector_address)
        irq_status == m.irq
        m1 == save_and_disable_interrupts(m)
        m3 == flash_range_program(m1, addr, data)
    IN restore_interrupts(m3, irq_status)

_write_sector_by_physical_addr(m, physical_sector_address, data) ==
    LET addr == get_memory_addr_from_physical_sector(physical_sector_address)
        irq_status == m.irq
        m1 == save_and_disable_interrupts(m)
        m2 == flash_range_erase(m1, addr, FLASH_SECTOR_SIZE)
        m3 == flash_range_program(m2, addr, data)
    IN restore_interrupts(m3, irq_status)

\* cleanHeaderBuffer: sizeof(SectorHeader) zero bytes, the rest of the page 0xFF
cleanHeaderBuffer == prepare_buffer_to_write(SectorHeader(<<0, 0>>, 0, 0, 0))

\* Fault injection for C19: a delete loop that includes its upper limit
\* (physical_sector <= end).
RECURSIVE DeleteLoopInclusive(_, _, _)
DeleteLoopInclusive(m, physical_sector, end) ==
    IF physical_sector > end THEN m
    ELSE DeleteLoopInclusive(flash_range_program(m,
                                 get_memory_addr_from_physical_sector(physical_sector),
                                 cleanHeaderBuffer),
                             physical_sector + 1, end)

RECURSIVE DeleteLoop(_, _, _)
DeleteLoop(m, physical_sector, end) ==
    IF physical_sector >= end THEN m
    ELSE DeleteLoop(flash_range_program(m,
                        get_memory_addr_from_physical_sector(physical_sector),
                        cleanHeaderBuffer),
                    physical_sector + 1, end)

delete_sectors(m, begin, end) ==
    LET irq_status == m.irq
    IN restore_interrupts(DeleteLoop(save_and_disable_interrupts(m), begin, end), irq_status)

delete_sector(m, physical_sector) ==
    delete_sectors(m, physical_sector, physical_sector + 1)

delete_all_sectors(m, cfg) ==
    delete_sectors(m, cfg.lower, cfg.upper)

(***************************************************************************)
(* Initialiser                                                             *)
(***************************************************************************)
\* Fault injection for C9: a validation sweep whose range check is off by one
\* (logicalID > _logical_sectors_count), so that the header carrying the first
\* out-of-range id survives.
RECURSIVE ValidationSweepOffByOne(_, _, _, _)
ValidationSweepOffByOne(m, cfg, physical_sector, count) ==
    IF physical_sector >= cfg.upper THEN [m |-> m, count |-> count]
    ELSE IF get_header_attribute_from_sector(m.flash, physical_sector, 0) # MEMORY_SIGNATURE
         THEN ValidationSweepOffByOne(m, cfg, physical_sector + cfg.group_by,
                                      (count + 1) % U16)
    ELSE IF get_header_attribute_from_sector(m.flash, physical_sector, 1) > cfg.count
         THEN ValidationSweepOffByOne(delete_sectors(m, physical_sector, physical_sector + 1),
                                      cfg, physical_sector + cfg.group_by, (count + 1) % U16)
    ELSE ValidationSweepOffByOne(m, cfg, physical_sector + cfg.group_by, count)

\* Fault injection for C20: a validation sweep that invalidates every valid
\* leader, whatever its logicalID.
RECURSIVE ValidationSweepDeletesValid(_, _, _, _)
ValidationSweepDeletesValid(m, cfg, physical_sector, count) ==
    IF physical_sector >= cfg.upper THEN [m |-> m, count |-> count]
    ELSE IF get_header_attribute_from_sector(m.flash, physical_sector, 0) # MEMORY_SIGNATURE
         THEN ValidationSweepDeletesValid(m, cfg, physical_sector + cfg.group_by,
                                          (count + 1) % U16)
    ELSE ValidationSweepDeletesValid(delete_sectors(m, physical_sector, physical_sector + 1),
                                     cfg, physical_sector + cfg.group_by, (count + 1) % U16)

\* The validation sweep of init_sectors, from physical_sector on; count is
\* unitialized_sectors_count (u16).
RECURSIVE ValidationSweep(_, _, _, _)
ValidationSweep(m, cfg, physical_sector, count) ==
    IF physical_sector >= cfg.upper THEN [m |-> m, count |-> count]
    ELSE IF get_header_attribute_from_sector(m.flash, physical_sector, 0) # MEMORY_SIGNATURE
         THEN ValidationSweep(m, cfg, physical_sector + cfg.group_by, (count + 1) % U16)
    ELSE IF get_header_attribute_from_sector(m.flash, physical_sector, 1) >= cfg.count
         THEN ValidationSweep(delete_sector(m, physical_sector), cfg,
                              physical_sector + cfg.group_by, (count + 1) % U16)
    ELSE ValidationSweep(m, cfg, physical_sector + cfg.group_by, count)

\* the indeterminate values _get_random_physical_sector may return for r:
\* they matter only when neither scan finds a free sector
AllocatorJunk(f, cfg, r) == IF NoFreeSector(f, cfg, r) THEN BaseSectors ELSE {0}

\* The gap-fill loop of init_sectors, from logical_id on: the set of machines
\* it can end in, one for every value rand() % (_upper_bound - _lower_bound)
\* can take in each iteration that allocates.
RECURSIVE GapFill(_, _, _, _)
GapFill(m, cfg, logical_id, count) ==
    IF logical_id >= cfg.count THEN {m}
    ELSE IF get_first_sector_from_logical_id(m.flash, cfg, logical_id).found
         THEN GapFill(m, cfg, logical_id + 1, count)
    ELSE LET sectorHeader == SectorHeader(MEMORY_SIGNATURE, logical_id % U16, 1, 0)
             targets ==
                 UNION { { _get_random_physical_sector(m.flash, cfg, r, junk) :
                           junk \in AllocatorJunk(m.flash, cfg, r) } :
                         r \in 0 .. (cfg.upper - cfg.lower - 1) }
             exhausted == FreeSectorsOf(m.flash, cfg) = {}
             written ==
                 { _write_sector_by_physical_addr(Indeterminate(m, exhausted), target,
                                                  prepare_buffer_to_write(sectorHeader)) :
                   target \in targets }
         IN IF (count - 1) % U16 = 0 THEN written
            ELSE UNION { GapFill(m2, cfg, logical_id + 1, (count - 1) % U16) : m2 \in written }

\* init_sectors: the machines it can end in
init_sectors(m, cfg) ==
    LET swept == ValidationSweep(m, cfg, cfg.lower, 0)
    IN IF swept.count = 0 THEN {swept.m}
       ELSE GapFill(swept.m, cfg, 0, swept.count)

(***************************************************************************)
(* Mutator: the erase paths                                                *)
(***************************************************************************)
\* First loop of erase_logical_sector: sectorHeaders[i] is read (and bumped)
\* from the sector the resolver returns for sub-sector i.  jw is the
\* indeterminate start of the resolver's walk when the representative is not
\* found.
ReadHeaders(f, cfg, logical_sector, jw) ==
    [i \in 0 .. (cfg.group_by - 1) |->
        read_and_update_header(f,
            get_physical_sector_from_logical_id(f, cfg, logical_sector, i, jw).addr)]

\* Second loop of erase_logical_sector, from sub-sector i on: the sector is
\* resolved again, on the flash as it is now, and its header page programmed.
RECURSIVE ProgramHeaders(_, _, _, _, _, _)
ProgramHeaders(m, cfg, logical_sector, sectorHeaders, i, jw) ==
    IF i >= cfg.group_by THEN m
    ELSE LET resolved ==
                 get_physical_sector_from_logical_id(m.flash, cfg, logical_sector, i, jw)
             physical_sector_address == resolved.addr
             memory_addr == get_memory_addr_from_physical_sector(physical_sector_address)
         IN ProgramHeaders(
                flash_range_program(Indeterminate(m, ~resolved.found), memory_addr,
                                    prepare_buffer_to_write(sectorHeaders[i])),
                cfg, logical_sector, sectorHeaders, i + 1, jw)

\* erase_logical_sector after its assertion.  je is the indeterminate value of
\* the local physical_sector_address when get_first_sector_from_logical_id
\* misses (it writes the address only on a hit).
erase_logical_sector(m, cfg, logical_sector, jw, je) ==
    LET irq_status == m.irq
        m1 == save_and_disable_interrupts(m)
        sectorHeaders == ReadHeaders(m1.flash, cfg, logical_sector, jw)
        first == get_first_sector_from_logical_id(m1.flash, cfg, logical_sector)
        physical_sector_address == IF first.found THEN first.addr ELSE je
        memory_addr == get_memory_addr_from_physical_sector(physical_sector_address)
        m2 == flash_range_erase(Indeterminate(m1, ~first.found), memory_addr,
                                FLASH_SECTOR_SIZE * cfg.group_by)
        m3 == ProgramHeaders(m2, cfg, logical_sector, sectorHeaders, 0, jw)
    IN restore_interrupts(m3, irq_status)

\* erase_physical_sector after its assertions: the sector is erased first and
\* its header read afterwards.
erase_physical_sector(m, cfg, logical_sector, physical_sector_id, jw) ==
    LET irq_status == m.irq
        m1 == save_and_disable_interrupts(m)
        resolved ==
            get_physical_sector_from_logical_id(m1.flash, cfg, logical_sector,
                                                physical_sector_id, jw)
        physical_sector_address == resolved.addr
        memory_addr == get_memory_addr_from_physical_sector(physical_sector_address)
        m2 == flash_range_erase(Indeterminate(m1, ~resolved.found), memory_addr,
                                FLASH_SECTOR_SIZE)
        sectorHeader == read_and_update_header(m2.flash, physical_sector_address)
        m3 == flash_range_program(m2, memory_addr, prepare_buffer_to_write(sectorHeader))
    IN restore_interrupts(m3, irq_status)

\* Fault injection for C10: an assertion that lets the first out-of-range id
\* through (logical_sector <= _logical_sectors_count).
AssertLetsCountThrough(cfg, logical_sector) ==
    logical_sector <= cfg.count

\* the two assertions that open the erase operations
erase_logical_sector_assert(cfg, logical_sector) ==
    logical_sector < cfg.count

erase_physical_sector_assert(cfg, logical_sector, physical_sector_id) ==
    /\ logical_sector < cfg.count
    /\ physical_sector_id < cfg.group_by

(***************************************************************************)
(* State                                                                   *)
(***************************************************************************)
VARIABLES
    flash,                   \* the flash device: AllSectors -> sector contents
    _lower_bound,            \* the four globals set by init_flash_lib
    _upper_bound,
    _logical_sectors_count,
    _group_by,
    pc,                      \* "off": not initialised, "ready", "aborted" (an
                             \* assertion failed), "undefined" (the operation
                             \* consumed an indeterminate value)
    last,                    \* the last operation: name, arguments, whether it
                             \* started on all-erased flash, the driver calls
                             \* it issued, its result (ret) and, for the
                             \* operations that return a bool, that flag (ok)
    prior,                   \* the operation before the last one
    initsOnly,               \* every operation so far was init_flash_lib(.., .., 1)
    sameConfig,              \* every init_flash_lib so far had the same arguments
    interrupts,              \* the processor's interrupts are enabled
    frame                    \* the locals of init_sectors while it is followed
                             \* statement by statement (NoFrame otherwise)

vars == <<flash, _lower_bound, _upper_bound, _logical_sectors_count, _group_by,
          pc, last, prior, initsOnly, sameConfig, interrupts, frame>>

\* at: the loop init_sectors is in; physical_sector: the counter of the loop
\* (of the validation sweep, or of the allocator's scan)
NoFrame ==
    [at |-> "none", physical_sector |-> 0, unitialized_sectors_count |-> 0,
     logical_id |-> 0, random_physical_sector |-> 0, calls |-> << >>]

Globals ==
    [lower |-> _lower_bound, upper |-> _upper_bound,
     count |-> _logical_sectors_count, group_by |-> _group_by]

NoConfig == [lower |-> 0, upper |-> 0, count |-> 0, group_by |-> 0]

AllErased == [s \in AllSectors |-> ErasedSector]

Op(name, a, b, m, ret) ==
    [op |-> name, arg1 |-> a, arg2 |-> b, cold |-> (flash = AllErased),
     calls |-> m.calls, ret |-> ret, ok |-> TRUE]

\* what is remembered of the operation before the last one: whether it was an
\* init_flash_lib, and then its configuration and whether it was a cold boot
NotInit == [op |-> "other", cfg |-> NoConfig, cold |-> FALSE]

PowerLossBefore == [op |-> "power_loss", cfg |-> NoConfig, cold |-> FALSE]

Desc(o, cfg) ==
    IF o.op = "init" THEN [op |-> o.op, cfg |-> cfg, cold |-> o.cold]
    ELSE IF o.op = "power_loss" THEN PowerLossBefore
    ELSE NotInit

Boot(f) ==
    /\ flash = f
    /\ _lower_bound = 0
    /\ _upper_bound = 0
    /\ _logical_sectors_count = 0
    /\ _group_by = 0
    /\ pc = "off"
    /\ last = [op |-> "none", arg1 |-> 0, arg2 |-> 0, cold |-> FALSE,
               calls |-> << >>, ret |-> 0, ok |-> TRUE]
    /\ prior = NotInit
    /\ initsOnly = TRUE
    /\ sameConfig = TRUE
    /\ interrupts \in BOOLEAN
    /\ frame = NoFrame

\* power-up on factory-fresh (all-erased) flash; the application calls the
\* library with interrupts enabled, or with interrupts masked
Init == Boot(AllErased)

\* the machine an operation is entered on: the flash and the interrupt state
\* as they are now
Running == [Machine(flash) EXCEPT !.irq = interrupts]

ConfigUnchanged ==
    UNCHANGED <<_lower_bound, _upper_bound, _logical_sectors_count, _group_by>>

Record(o, only) ==
    /\ UNCHANGED frame
    /\ last' = o
    /\ prior' = Desc(last, Globals)
    /\ initsOnly' = (initsOnly /\ only)
    /\ sameConfig' = (sameConfig /\ (o.op = "init" /\ pc # "off" => Globals' = Globals))

\* The indeterminate values an operation may see.  m0 is a first run of the
\* operation with the value 0: only a run that uses an indeterminate value
\* depends on it.
JunkValues(m0) == IF m0.ub THEN BaseSectors ELSE {0}

\* Reading an uninitialised variable is undefined behaviour: the model keeps
\* the flash such a run leaves, and follows the process no further.  A failed
\* assertion ends the process as well ("aborted").
AfterJunk(m) == IF m.ub THEN "undefined" ELSE "ready"

(***************************************************************************)
(* Operations                                                              *)
(***************************************************************************)
\* the configurations init_flash_lib is called with
Configs ==
    { Config(lower, count, g) : lower \in 0 .. MaxLower, count \in 1 .. MaxCount,
                                g \in GroupBys }

\* A power-up followed by init_flash_lib(lower_bound, logical_sectors_count,
\* group_by): the globals are set, then init_sectors runs.
Initialize ==
    /\ pc \in {"off", "ready"}
    /\ \E cfg \in Configs :
         /\ cfg.upper <= NumSectors
         /\ \E m \in init_sectors(Running, cfg) :
              /\ flash' = m.flash
              /\ interrupts' = m.irq
              /\ _logical_sectors_count' = cfg.count
              /\ _lower_bound' = cfg.lower
              /\ _upper_bound' = cfg.upper
              /\ _group_by' = cfg.group_by
              /\ pc' = AfterJunk(m)
              /\ Record(Op("init", 0, 0, m, 0), cfg.group_by = 1)

\* the values a caller passes as logical sector / sub-sector id: every id in
\* range, and the first one out of range
LogicalIds == 0 .. _logical_sectors_count

SubIds == 0 .. _group_by

WriteCountsBounded(m) ==
    \A s \in DOMAIN m.flash :
        m.flash[s].writeCount <= MaxWriteCount \/ m.flash[s].writeCount = U16 - 1

\* the indeterminate value of physical_sector_address in erase_logical_sector
\* matters only when the representative is not found
EraseJunkValues(f, cfg, logical_sector) ==
    IF get_first_sector_from_logical_id(f, cfg, logical_sector).found
    THEN {0} ELSE BaseSectors

EraseLogicalSector ==
    /\ pc = "ready"
    /\ \E logical_sector \in LogicalIds :
         \/ /\ ~erase_logical_sector_assert(Globals, logical_sector)
            /\ pc' = "aborted"
            /\ Record(Op("erase_logical", logical_sector, 0, Running, 0), FALSE)
            /\ UNCHANGED flash
            /\ UNCHANGED interrupts
            /\ ConfigUnchanged
         \/ /\ erase_logical_sector_assert(Globals, logical_sector)
            /\ \E m0 \in {erase_logical_sector(Running, Globals, logical_sector, 0, 0)} :
               \E jw \in JunkValues(m0), je \in EraseJunkValues(flash, Globals, logical_sector) :
               \E m \in {IF jw = 0 /\ je = 0 THEN m0
                         ELSE erase_logical_sector(Running, Globals, logical_sector,
                                                   jw, je)} :
                 /\ WriteCountsBounded(m)
                 /\ flash' = m.flash
                 /\ interrupts' = m.irq
                 /\ Record(Op("erase_logical", logical_sector, 0, m, 0), FALSE)
                 /\ pc' = AfterJunk(m)
            /\ ConfigUnchanged

ErasePhysicalSector ==
    /\ pc = "ready"
    /\ \E logical_sector \in LogicalIds, physical_sector_id \in SubIds :
         \/ /\ ~erase_physical_sector_assert(Globals, logical_sector, physical_sector_id)
            /\ pc' = "aborted"
            /\ Record(Op("erase_physical", logical_sector, physical_sector_id,
                         Running, 0), FALSE)
            /\ UNCHANGED flash
            /\ UNCHANGED interrupts
            /\ ConfigUnchanged
         \/ /\ erase_physical_sector_assert(Globals, logical_sector, physical_sector_id)
            /\ \E m0 \in {erase_physical_sector(Running, Globals, logical_sector,
                                                physical_sector_id, 0)} :
               \E jw \in JunkValues(m0) :
               \E m \in {IF jw = 0 THEN m0
                         ELSE erase_physical_sector(Running, Globals, logical_sector,
                                                    physical_sector_id, jw)} :
                 /\ WriteCountsBounded(m)
                 /\ flash' = m.flash
                 /\ interrupts' = m.irq
                 /\ Record(Op("erase_physical", logical_sector, physical_sector_id, m, 0),
                           FALSE)
                 /\ pc' = AfterJunk(m)
            /\ ConfigUnchanged

DeleteSector ==
    /\ pc = "ready"
    /\ \E physical_sector \in _lower_bound .. (_upper_bound - 1) :
       \E m \in {delete_sector(Running, physical_sector)} :
         /\ flash' = m.flash
         /\ interrupts' = m.irq
         /\ Record(Op("delete_sector", physical_sector, 0, m, 0), FALSE)
    /\ UNCHANGED pc
    /\ ConfigUnchanged

DeleteAllSectors ==
    /\ pc = "ready"
    /\ \E m \in {delete_all_sectors(Running, Globals)} :
         /\ flash' = m.flash
         /\ interrupts' = m.irq
         /\ Record(Op("delete_all", 0, 0, m, 0), FALSE)
    /\ UNCHANGED pc
    /\ ConfigUnchanged

\* one call of _get_random_physical_sector on the current flash; arg1 is the
\* value of rand() % (_upper_bound - _lower_bound), ret the sector returned
Allocate ==
    /\ pc = "ready"
    /\ \E r \in 0 .. (_upper_bound - _lower_bound - 1) :
       \E junk \in AllocatorJunk(flash, Globals, r) :
         /\ Record(Op("alloc", r, 0, Running,
                      _get_random_physical_sector(flash, Globals, r, junk)), FALSE)
         /\ pc' = IF NoFreeSector(flash, Globals, r) THEN "undefined" ELSE "ready"
    /\ UNCHANGED flash
    /\ UNCHANGED interrupts
    /\ ConfigUnchanged

\* the byte offsets a caller reads at: the ends of the first and of the second
\* physical sector of a logical sector
ReadOffsets ==
    {0, 1, FLASH_SECTOR_SIZE - 1, FLASH_SECTOR_SIZE, FLASH_SECTOR_SIZE + 1,
     2 * FLASH_SECTOR_SIZE - 1}

\* one call of read_sector; arg1 is the logical sector, arg2 the byte offset,
\* ret the pointer returned (less XIP_BASE)
ReadSector ==
    /\ pc = "ready"
    /\ \E logical_sector \in LogicalIds, offset_bytes \in ReadOffsets :
       \E junk \in EraseJunkValues(flash, Globals, logical_sector) :
         /\ Record(Op("read", logical_sector, offset_bytes, Running,
                      read_sector(flash, Globals, logical_sector, offset_bytes, junk)),
                   FALSE)
         /\ pc' = IF get_first_sector_from_logical_id(flash, Globals, logical_sector).found
                  THEN "ready" ELSE "undefined"
    /\ UNCHANGED flash
    /\ UNCHANGED interrupts
    /\ ConfigUnchanged

\* the logical ids the resolver is asked for: every id a header can carry in
\* the model, and one no header carries
ResolverIds == 0 .. MaxCount

\* one call of get_first_sector_from_logical_id; ok is the bool returned, ret
\* the sector stored through physical_addr (NoSector: nothing was stored)
FindRepresentative ==
    /\ pc = "ready"
    /\ \E logical_id \in ResolverIds :
       \E first \in {get_first_sector_from_logical_id(flash, Globals, logical_id)} :
         Record([Op("find", logical_id, 0, Running,
                    IF first.found THEN first.addr ELSE NoSector)
                   EXCEPT !.ok = first.found], FALSE)
    /\ UNCHANGED <<flash, interrupts, pc>>
    /\ ConfigUnchanged

\* one call of get_physical_sector_from_logical_id; ok is the bool returned,
\* ret the sector stored through physical_addr
FindSubSector ==
    /\ pc = "ready"
    /\ \E logical_id \in ResolverIds, physical_sector_id \in SubIds :
       \E junk \in EraseJunkValues(flash, Globals, logical_id) :
       \E resolved \in {get_physical_sector_from_logical_id(flash, Globals, logical_id,
                                                            physical_sector_id, junk)} :
         /\ Record([Op("find_sub", logical_id, physical_sector_id, Running, resolved.addr)
                      EXCEPT !.ok = resolved.found], FALSE)
         /\ pc' = IF resolved.found THEN "ready" ELSE "undefined"
    /\ UNCHANGED <<flash, interrupts>>
    /\ ConfigUnchanged

\* one call of delete_sectors(begin, end), with any limits on the flash
DeleteRange ==
    /\ pc = "ready"
    /\ \E begin \in 0 .. NumSectors, end \in 0 .. NumSectors :
       \E m \in {delete_sectors(Running, begin, end)} :
         /\ flash' = m.flash
         /\ interrupts' = m.irq
         /\ Record(Op("delete_range", begin, end, m, 0), FALSE)
    /\ UNCHANGED pc
    /\ ConfigUnchanged

\* The library in use, from factory-fresh flash.
Next ==
    \/ Initialize
    \/ EraseLogicalSector
    \/ ErasePhysicalSector
    \/ DeleteSector
    \/ DeleteAllSectors

Spec == Init /\ [][Next]_vars

\* One power-up: init_flash_lib is called once, on factory-fresh flash, and
\* the application then calls the operations in any order.
FirstInitialize == pc = "off" /\ Initialize

NextCalls ==
    \/ FirstInitialize
    \/ EraseLogicalSector
    \/ ErasePhysicalSector
    \/ DeleteSector
    \/ DeleteAllSectors

SpecCalls == Init /\ [][NextCalls]_vars

\* Power-ups only: every step is an init_flash_lib, with any configuration.
NextBoot == Initialize

SpecBoot == Init /\ [][NextBoot]_vars

\* The allocator as a function of the flash and the configuration it reads:
\* the library is configured, every sector of the address space holds a valid
\* header, a deleted header or nothing, and _get_random_physical_sector is
\* applied with every value of rand().
DrawnSectors ==
    {ErasedSector, ProgramSector(ErasedSector, cleanHeaderBuffer)}
    \cup { ProgramSector(ErasedSector,
                         prepare_buffer_to_write(SectorHeader(MEMORY_SIGNATURE, id, 1, 0))) :
             id \in 0 .. (MaxCount - 1) }

InitAlloc ==
    /\ \E cfg \in Configs :
         /\ cfg.upper <= NumSectors
         /\ _lower_bound = cfg.lower
         /\ _upper_bound = cfg.upper
         /\ _logical_sectors_count = cfg.count
         /\ _group_by = cfg.group_by
    /\ flash \in { [s \in AllSectors |-> IF s \in BaseSectors THEN base[s] ELSE ErasedSector] :
                    base \in [BaseSectors -> DrawnSectors] }
    /\ pc = "ready"
    /\ last = [op |-> "none", arg1 |-> 0, arg2 |-> 0, cold |-> FALSE,
               calls |-> << >>, ret |-> 0, ok |-> TRUE]
    /\ prior = NotInit
    /\ initsOnly = FALSE
    /\ sameConfig = TRUE
    /\ frame = NoFrame
    /\ interrupts = TRUE

NextAlloc == Allocate

SpecAlloc == InitAlloc /\ [][NextAlloc]_vars

\* The reader as a function of the flash and the configuration it reads.
NextRead == ReadSector

SpecRead == InitAlloc /\ [][NextRead]_vars

\* The resolver as a function of the flash and the configuration it reads.
NextResolve ==
    \/ FindRepresentative
    \/ FindSubSector

SpecResolve == InitAlloc /\ [][NextResolve]_vars

(***************************************************************************)
(* Power loss.  The supply is cut while an operation runs, after k of its  *)
(* flash driver calls and before the next one: the flash keeps what the k  *)
(* calls left, the process is gone.  The same firmware boots next, and     *)
(* calls init_flash_lib with the same arguments.                           *)
(***************************************************************************)
\* no operation issues more driver calls: one program per sector deleted and
\* an erase and a program per logical sector allocated
MaxCut == NumSectors + 2 * MaxCount

\* the machine an operation is entered on when the supply lasts k driver calls
CutAfter(k) == [Running EXCEPT !.budget = k]

PowerLost(k, m) ==
    /\ m.lost
    /\ flash' = m.flash
    /\ pc' = "off"
    /\ Record(Op("power_loss", k, 0, m, 0), FALSE)
    /\ UNCHANGED interrupts

\* the first power-up, with group_by = 1: the whole of init_flash_lib
ColdBoot ==
    /\ pc = "off"
    /\ last.op = "none"
    /\ Initialize
    /\ _group_by' = GROUP_BY_1

\* the supply fails inside init_flash_lib: at the first power-up, in a later
\* call with the same arguments, or in the boot after an earlier failure
PowerLossInInitialize ==
    /\ pc \in {"off", "ready"}
    /\ \E cfg \in Configs, k \in 1 .. MaxCut :
         /\ cfg.upper <= NumSectors
         /\ cfg.group_by = GROUP_BY_1
         /\ last.op # "none" => cfg = Globals
         /\ \E m \in init_sectors(CutAfter(k), cfg) :
              /\ PowerLost(k, m)
              /\ _logical_sectors_count' = cfg.count
              /\ _lower_bound' = cfg.lower
              /\ _upper_bound' = cfg.upper
              /\ _group_by' = cfg.group_by

PowerLossInEraseLogical ==
    /\ pc = "ready"
    /\ \E logical_sector \in LogicalIds, k \in 1 .. MaxCut :
         /\ erase_logical_sector_assert(Globals, logical_sector)
         /\ \E m0 \in {erase_logical_sector(CutAfter(k), Globals, logical_sector, 0, 0)} :
            \E jw \in JunkValues(m0), je \in EraseJunkValues(flash, Globals, logical_sector) :
            \E m \in {IF jw = 0 /\ je = 0 THEN m0
                      ELSE erase_logical_sector(CutAfter(k), Globals, logical_sector,
                                                jw, je)} :
              PowerLost(k, m)
    /\ ConfigUnchanged

PowerLossInErasePhysical ==
    /\ pc = "ready"
    /\ \E logical_sector \in LogicalIds, physical_sector_id \in SubIds, k \in 1 .. MaxCut :
         /\ erase_physical_sector_assert(Globals, logical_sector, physical_sector_id)
         /\ \E m0 \in {erase_physical_sector(CutAfter(k), Globals, logical_sector,
                                             physical_sector_id, 0)} :
            \E jw \in JunkValues(m0) :
            \E m \in {IF jw = 0 THEN m0
                      ELSE erase_physical_sector(CutAfter(k), Globals, logical_sector,
                                                 physical_sector_id, jw)} :
              PowerLost(k, m)
    /\ ConfigUnchanged

\* the supply fails between two operations: before the single driver call of
\* delete_sector, or after it
PowerLossAtRest ==
    /\ pc = "ready"
    /\ pc' = "off"
    /\ Record(Op("power_loss", 0, 0, Running, 0), FALSE)
    /\ UNCHANGED <<flash, interrupts>>
    /\ ConfigUnchanged

\* the boot after a power loss: init_flash_lib with the same arguments
Reboot ==
    /\ pc = "off"
    /\ last.op = "power_loss"
    /\ Initialize
    /\ Globals' = Globals

NextPower ==
    \/ ColdBoot
    \/ EraseLogicalSector
    \/ ErasePhysicalSector
    \/ DeleteSector
    \/ PowerLossInInitialize
    \/ PowerLossInEraseLogical
    \/ PowerLossInErasePhysical
    \/ PowerLossAtRest
    \/ Reboot

\* factory-fresh flash; the application calls the library with interrupts
\* enabled
InitPower == Init /\ interrupts

SpecPower == InitPower /\ [][NextPower]_vars

(***************************************************************************)
(* init_sectors statement by statement: one step per loop iteration, the   *)
(* allocator's two scans included.  init_flash_lib is called once, with    *)
(* the drawn configuration as its arguments, on the drawn flash.           *)
(***************************************************************************)
\* Fault injection for C22: the counter is not decremented after an allocation.
CountNotDecremented(count) == count

\* unitialized_sectors_count-- (u16)
CountAfterAllocation(count) == (count - 1) % U16

\* the machine a statement of init_sectors runs on: the flash and interrupt
\* state as they are now, the driver calls issued so far
Stepping == [Running EXCEPT !.calls = frame.calls]

FrameUnchanged == UNCHANGED <<last, prior, initsOnly, sameConfig>>

InitFlashLib ==
    /\ pc = "ready"
    /\ last.op = "none"
    /\ pc' = "init"
    /\ frame' = [NoFrame EXCEPT !.at = "sweep", !.physical_sector = _lower_bound]
    /\ UNCHANGED <<flash, interrupts>>
    /\ FrameUnchanged
    /\ ConfigUnchanged

\* return from init_sectors and init_flash_lib
InitReturns ==
    /\ pc' = "ready"
    /\ frame' = NoFrame
    /\ last' = Op("init", 0, 0, [calls |-> frame.calls], 0)
    /\ prior' = Desc(last, Globals)
    /\ UNCHANGED <<flash, interrupts, initsOnly, sameConfig>>

\* one iteration of the validation sweep, or its exit
SweepStep ==
    /\ pc = "init"
    /\ frame.at = "sweep"
    /\ LET physical_sector == frame.physical_sector
           count == frame.unitialized_sectors_count
       IN IF physical_sector >= _upper_bound
          THEN IF count = 0 THEN InitReturns
               ELSE /\ frame' = [frame EXCEPT !.at = "fill", !.logical_id = 0]
                    /\ UNCHANGED <<flash, interrupts, pc>>
                    /\ FrameUnchanged
          ELSE IF get_header_attribute_from_sector(flash, physical_sector, 0) # MEMORY_SIGNATURE
          THEN /\ frame' = [frame EXCEPT !.physical_sector = physical_sector + _group_by,
                                         !.unitialized_sectors_count = (count + 1) % U16]
               /\ UNCHANGED <<flash, interrupts, pc>>
               /\ FrameUnchanged
          ELSE IF get_header_attribute_from_sector(flash, physical_sector, 1)
                     >= _logical_sectors_count
          THEN \E m \in {delete_sector(Stepping, physical_sector)} :
                 /\ flash' = m.flash
                 /\ interrupts' = m.irq
                 /\ frame' = [frame EXCEPT !.physical_sector = physical_sector + _group_by,
                                           !.unitialized_sectors_count = (count + 1) % U16,
                                           !.calls = m.calls]
                 /\ UNCHANGED pc
                 /\ FrameUnchanged
          ELSE /\ frame' = [frame EXCEPT !.physical_sector = physical_sector + _group_by]
               /\ UNCHANGED <<flash, interrupts, pc>>
               /\ FrameUnchanged
    /\ ConfigUnchanged

\* one iteration of the gap-fill loop up to the call of
\* _get_random_physical_sector, whose first statement draws the start
FillStep ==
    /\ pc = "init"
    /\ frame.at = "fill"
    /\ IF frame.logical_id >= _logical_sectors_count THEN InitReturns
       ELSE IF get_first_sector_from_logical_id(flash, Globals, frame.logical_id).found
       THEN /\ frame' = [frame EXCEPT !.logical_id = @ + 1]
            /\ UNCHANGED <<flash, interrupts, pc>>
            /\ FrameUnchanged
       ELSE \E r \in 0 .. (_upper_bound - _lower_bound - 1) :
              /\ frame' = [frame EXCEPT !.at = "scan_up",
                                        !.random_physical_sector = (r + _lower_bound) % U16,
                                        !.physical_sector = (r + _lower_bound) % U16]
              /\ UNCHANGED <<flash, interrupts, pc>>
              /\ FrameUnchanged
    /\ ConfigUnchanged

\* the allocator returned physical_sector: the header of logical_id is written
\* there, and the gap-fill loop ends or goes on
AllocatorReturns(physical_sector) ==
    LET sectorHeader == SectorHeader(MEMORY_SIGNATURE, frame.logical_id % U16, 1, 0)
        m == _write_sector_by_physical_addr(Stepping, physical_sector,
                                            prepare_buffer_to_write(sectorHeader))
        count == CountAfterAllocation(frame.unitialized_sectors_count)
    IN IF count = 0
       THEN /\ flash' = m.flash
            /\ interrupts' = m.irq
            /\ pc' = "ready"
            /\ frame' = NoFrame
            /\ last' = Op("init", 0, 0, m, 0)
            /\ prior' = Desc(last, Globals)
            /\ UNCHANGED <<initsOnly, sameConfig>>
       ELSE /\ flash' = m.flash
            /\ interrupts' = m.irq
            /\ frame' = [frame EXCEPT !.at = "fill", !.logical_id = @ + 1,
                                      !.unitialized_sectors_count = count,
                                      !.calls = m.calls]
            /\ UNCHANGED pc
            /\ FrameUnchanged

\* one iteration of "Check upwards", or its exit into "Check downwards"
ScanUpStep ==
    /\ pc = "init"
    /\ frame.at = "scan_up"
    /\ IF frame.physical_sector >= _upper_bound
       THEN /\ frame' = [frame EXCEPT !.at = "scan_down",
                                      !.physical_sector =
                                          (frame.random_physical_sector - 1) % U16]
            /\ UNCHANGED <<flash, interrupts, pc>>
            /\ FrameUnchanged
       ELSE IF ~check_sector_signature(flash, frame.physical_sector)
       THEN AllocatorReturns(frame.physical_sector)
       ELSE /\ frame' = [frame EXCEPT !.physical_sector = (@ + 1) % U16]
            /\ UNCHANGED <<flash, interrupts, pc>>
            /\ FrameUnchanged
    /\ ConfigUnchanged

\* one iteration of "Check downwards".  Leaving the loop is the fall off the
\* end of the function, reading a sector the device does not have is a read
\* outside the flash: the process is followed no further.
ScanDownStep ==
    /\ pc = "init"
    /\ frame.at = "scan_down"
    /\ IF frame.physical_sector < _lower_bound \/ frame.physical_sector \notin DOMAIN flash
       THEN /\ pc' = "undefined"
            /\ UNCHANGED <<flash, interrupts, frame>>
            /\ FrameUnchanged
       ELSE IF ~check_sector_signature(flash, frame.physical_sector)
       THEN AllocatorReturns(frame.physical_sector)
       ELSE /\ frame' = [frame EXCEPT !.physical_sector = (@ - 1) % U16]
            /\ UNCHANGED <<flash, interrupts, pc>>
            /\ FrameUnchanged
    /\ ConfigUnchanged

NextInitSteps ==
    \/ InitFlashLib
    \/ SweepStep
    \/ FillStep
    \/ ScanUpStep
    \/ ScanDownStep

\* the processor executes the next statement as long as there is one
SpecInitSteps == InitAlloc /\ [][NextInitSteps]_vars /\ WF_vars(NextInitSteps)

\* init_flash_lib as a function of the flash it is applied to: any contents
\* of the drawn kind, any configuration, any number of times.
NextInit == Initialize

SpecInit == InitAlloc /\ [][NextInit]_vars

\* The delete operations as functions of the flash they are applied to.
NextDelete ==
    \/ DeleteSector
    \/ DeleteAllSectors
    \/ DeleteRange

SpecDelete == InitAlloc /\ [][NextDelete]_vars

(***************************************************************************)
(* Vocabulary of the properties                                            *)
(***************************************************************************)
Owned(cfg) == cfg.lower .. (cfg.upper - 1)

Leaders(cfg) == { p \in Owned(cfg) : (p - cfg.lower) % cfg.group_by = 0 }

isValid(f, p) == f[p].signature = MEMORY_SIGNATURE

\* findRepresentative(id) succeeds with a valid sector of the address space
\* whose header carries id
Resolves(f, cfg, id) ==
    LET first == get_first_sector_from_logical_id(f, cfg, id) IN
    /\ first.found
    /\ first.addr \in Owned(cfg)
    /\ isValid(f, first.addr)
    /\ f[first.addr].logicalID = id

Representative(f, cfg, id) == get_first_sector_from_logical_id(f, cfg, id).addr

NoDuplicateLeaders(f, cfg) ==
    \A p, q \in Leaders(cfg) :
        (p # q /\ isValid(f, p) /\ isValid(f, q)) => f[p].logicalID # f[q].logicalID

NonOverlap(f, cfg) ==
    \A p, q \in Owned(cfg) :
        (p # q /\ isValid(f, p) /\ isValid(f, q))
            => <<f[p].logicalID, f[p].id>> # <<f[q].logicalID, f[q].id>>

CallsOf(o, kind) == { i \in 1 .. Len(o.calls) : o.calls[i].call = kind }

NoFlashCalls(o) == CallsOf(o, "erase") = {} /\ CallsOf(o, "program") = {}

SectorOfCall(c) == c.addr \div FLASH_SECTOR_SIZE

(***************************************************************************)
(* C1.  After init_flash_lib returns, whatever the flash held before (as   *)
(* long as no two valid group leaders shared a logicalID) and whatever     *)
(* group_by is, every logical id below logical_sectors_count resolves to a *)
(* valid sector of the address space carrying that id.                     *)
(* Stated as the claim states it; the code violates it for group_by > 1.   *)
(***************************************************************************)
C1_InitResolvesEveryId ==
    [][ (last'.op = "init" /\ pc' = "ready" /\ NoDuplicateLeaders(flash, Globals'))
          => \A id \in 0 .. (_logical_sectors_count' - 1) : Resolves(flash', Globals', id)
      ]_vars

(***************************************************************************)
(* C2.  Non-overlap: from all-erased flash, under one configuration, after *)
(* any sequence of operations no two distinct valid sectors of the address *)
(* space carry the same (logicalID, id) pair.                              *)
(* Stated as the claim states it; the code violates it.                    *)
(***************************************************************************)
C2_NonOverlap ==
    (pc # "off" /\ sameConfig) => NonOverlap(flash, Globals)

(***************************************************************************)
(* C3.  Idempotent initialisation: an init_flash_lib that directly follows *)
(* a completed init_flash_lib with the same arguments issues no erase and  *)
(* no program call, and every logical id resolves to the same sector with  *)
(* the same header as before.                                              *)
(* Stated as the claim states it; the code violates it for group_by > 1.   *)
(***************************************************************************)
C3_SecondInitIsIdle ==
    [][ (last.op = "init" /\ pc = "ready" /\ last'.op = "init" /\ Globals' = Globals)
          => /\ NoFlashCalls(last')
             /\ \A id \in 0 .. (_logical_sectors_count - 1) :
                  /\ get_first_sector_from_logical_id(flash', Globals, id)
                       = get_first_sector_from_logical_id(flash, Globals, id)
                  /\ Resolves(flash, Globals, id)
                       => flash'[Representative(flash, Globals, id)]
                            = flash[Representative(flash, Globals, id)]
      ]_vars

(***************************************************************************)
(* C4.  Cold boot with group_by = 1: init_flash_lib on all-erased flash    *)
(* performs exactly n allocations (one erase and one program each), to n   *)
(* pairwise distinct sectors of [lower, lower + n); afterwards every one   *)
(* of these sectors is valid, the logicalIDs are exactly 0 .. n-1, each    *)
(* once, and every header has writeCount 1 and id 0, whatever rand() gave. *)
(***************************************************************************)
C4_ColdBoot ==
    (last.op = "init" /\ last.cold /\ _group_by = 1) =>
        LET n == _logical_sectors_count
            erased == { SectorOfCall(last.calls[i]) : i \in CallsOf(last, "erase") }
            programmed == { SectorOfCall(last.calls[i]) : i \in CallsOf(last, "program") }
        IN /\ Cardinality(CallsOf(last, "erase")) = n
           /\ Cardinality(CallsOf(last, "program")) = n
           /\ erased = _lower_bound .. (_lower_bound + n - 1)
           /\ programmed = erased
           /\ \A p \in erased :
                /\ isValid(flash, p)
                /\ flash[p].writeCount = 1
                /\ flash[p].id = 0
           /\ \A id \in 0 .. (n - 1) :
                Cardinality({ p \in erased : flash[p].logicalID = id }) = 1

\* a cold boot of the largest configuration, its ids not laid out in order
C4_Witness ==
    /\ last.op = "init"
    /\ last.cold
    /\ _group_by = 1
    /\ _logical_sectors_count = MaxCount
    /\ flash[_lower_bound].logicalID # 0
    /\ isValid(flash, _lower_bound)

(***************************************************************************)
(* C5.  Erase preserves identity: after erase_logical_sector(id) on an     *)
(* initialised id, id still resolves to a valid sector carrying it, and    *)
(* the writeCount of every sub-sector header is one more (mod 2^16).       *)
(* Stated as the claim states it; the code violates it.                    *)
(***************************************************************************)
C5_EraseLogicalKeepsIdentity ==
    [][ (last'.op = "erase_logical" /\ pc' # "aborted" /\ Resolves(flash, Globals, last'.arg1))
          => /\ Resolves(flash', Globals, last'.arg1)
             /\ \A k \in 0 .. (_group_by - 1) :
                  flash'[Representative(flash', Globals, last'.arg1) + k].writeCount
                    = (flash[Representative(flash, Globals, last'.arg1) + k].writeCount + 1) % U16
      ]_vars

(***************************************************************************)
(* C6.  Physical erase round trip: after erase_physical_sector(id, 0) on   *)
(* an initialised id, the same sector is valid, carries logicalID id and   *)
(* id 0, its writeCount is one more, and its payload is erased.            *)
(* Stated as the claim states it; the code violates it.                    *)
(***************************************************************************)
C6_ErasePhysicalRoundTrip ==
    [][ (/\ last'.op = "erase_physical"
         /\ last'.arg2 = 0
         /\ pc' # "aborted"
         /\ Resolves(flash, Globals, last'.arg1)
         /\ flash[Representative(flash, Globals, last'.arg1)].id = 0)
          => LET p == Representative(flash, Globals, last'.arg1) IN
             /\ isValid(flash', p)
             /\ flash'[p].logicalID = last'.arg1
             /\ flash'[p].id = 0
             /\ flash'[p].writeCount = (flash[p].writeCount + 1) % U16
             /\ flash'[p].payload = U8 - 1
      ]_vars

(***************************************************************************)
(* C7.  The allocator avoids occupied sectors: when some sector of the     *)
(* address space is not valid, _get_random_physical_sector returns, for    *)
(* every start, a sector of the address space that is not valid: the       *)
(* lowest free sector at or above the start, or if there is none the       *)
(* highest free sector below it.                                           *)
(***************************************************************************)
FreeSectors(f, cfg) == { p \in Owned(cfg) : ~isValid(f, p) }

SetMin(S) == CHOOSE x \in S : \A y \in S : x <= y

SetMax(S) == CHOOSE x \in S : \A y \in S : y <= x

C7_AllocatorAvoidsOccupied ==
    (last.op = "alloc" /\ FreeSectors(flash, Globals) # {}) =>
        LET start == _lower_bound + last.arg1
            above == { p \in FreeSectors(flash, Globals) : p >= start }
            below == { p \in FreeSectors(flash, Globals) : p < start }
        IN /\ last.ret \in Owned(Globals)
           /\ ~isValid(flash, last.ret)
           /\ last.ret = IF above # {} THEN SetMin(above) ELSE SetMax(below)

\* the downward scan decided: the start and everything above it is occupied,
\* and the sector just below the start is occupied too
C7_Witness ==
    /\ last.op = "alloc"
    /\ pc = "ready"
    /\ isValid(flash, _lower_bound + last.arg1)
    /\ last.ret < _lower_bound + last.arg1 - 1
    /\ ~isValid(flash, last.ret)

(***************************************************************************)
(* C8.  Reconfiguration between power-ups: from all-erased flash, after    *)
(* any sequence of init_flash_lib calls with group_by = 1 and changing     *)
(* lower_bound / logical_sectors_count, every logical id of the last       *)
(* configuration resolves and no two valid sectors of its address space    *)
(* share a logicalID.                                                      *)
(* Stated as the claim states it; the code violates it.                    *)
(***************************************************************************)
C8_ReconfigurationCorrected ==
    (initsOnly /\ last.op = "init") =>
        /\ \A id \in 0 .. (_logical_sectors_count - 1) : Resolves(flash, Globals, id)
        /\ NoDuplicateLeaders(flash, Globals)

(***************************************************************************)
(* C9.  Shrink recovery.  A cold boot with n logical sectors (group_by 1)  *)
(* is directly followed by init_flash_lib with the same lower_bound and    *)
(* m < n.                                                                  *)
(***************************************************************************)
ShrinkStep ==
    /\ last.op = "init"
    /\ last.cold
    /\ pc = "ready"
    /\ _group_by = 1
    /\ last'.op = "init"
    /\ _group_by' = 1
    /\ _lower_bound' = _lower_bound
    /\ _logical_sectors_count' < _logical_sectors_count

\* C9 as claimed: no sector written by the first boot keeps a valid
\* signature with a logicalID >= m.  The code violates it.
C9_ShrinkInvalidatesAllStale ==
    [][ ShrinkStep =>
          \A p \in _lower_bound .. (_lower_bound + _logical_sectors_count - 1) :
             ~(isValid(flash', p) /\ flash'[p].logicalID >= _logical_sectors_count')
      ]_vars

\* C9 as amended: no sector of the NEW address space [lower, lower + m) keeps
\* a valid signature with a logicalID >= m (each such sector is invalidated by
\* the sweep, and the gap fill reuses it); the sectors of [lower + m, lower + n)
\* are not part of the new address space and are left as they were.
C9_ShrinkInvalidatesStaleInRange ==
    [][ ShrinkStep =>
          /\ \A p \in _lower_bound' .. (_upper_bound' - 1) :
               ~(isValid(flash', p) /\ flash'[p].logicalID >= _logical_sectors_count')
          /\ \A id \in 0 .. (_logical_sectors_count' - 1) : Resolves(flash', Globals', id)
          /\ \A p \in _upper_bound' .. (_upper_bound - 1) : flash'[p] = flash[p]
      ]_vars

\* a shrink that found a stale header inside the new address space,
\* invalidated it (a program without an erase) and reused the sector, while a
\* stale header outside the new address space stays valid
C9_Witness ==
    /\ last.op = "init"
    /\ pc = "ready"
    /\ prior.op = "init"
    /\ prior.cold
    /\ prior.cfg.group_by = 1
    /\ _group_by = 1
    /\ prior.cfg.lower = _lower_bound
    /\ _logical_sectors_count < prior.cfg.count
    /\ Cardinality(CallsOf(last, "program")) > Cardinality(CallsOf(last, "erase"))
    /\ \E p \in _upper_bound .. (prior.cfg.upper - 1) :
         isValid(flash, p) /\ flash[p].logicalID >= _logical_sectors_count

(***************************************************************************)
(* C10.  Configuration violations are fatal and free of side effects:      *)
(* erase_logical_sector(id) with id >= logical_sectors_count, and          *)
(* erase_physical_sector(id, k) with id >= logical_sectors_count or        *)
(* k >= group_by, abort before interrupts are disabled and before any      *)
(* flash call; the flash is unchanged.  An in-range call does not abort.   *)
(***************************************************************************)
C10_ViolationsAbortCleanly ==
    [][ /\ (last'.op = "erase_logical" /\ pc = "ready")
            => ((last'.arg1 >= _logical_sectors_count)
                  <=> (pc' = "aborted" /\ last'.calls = << >> /\ flash' = flash))
        /\ (last'.op = "erase_physical" /\ pc = "ready")
            => ((last'.arg1 >= _logical_sectors_count \/ last'.arg2 >= _group_by)
                  <=> (pc' = "aborted" /\ last'.calls = << >> /\ flash' = flash))
      ]_vars

\* erase_physical_sector aborted on the sub-sector index alone
C10_Witness ==
    /\ pc = "aborted"
    /\ last.op = "erase_physical"
    /\ last.arg1 < _logical_sectors_count
    /\ last.arg2 >= _group_by
    /\ last.calls = << >>

(***************************************************************************)
(* C11.  Critical-section discipline: every flash erase and program call   *)
(* of init_flash_lib, erase_logical_sector, erase_physical_sector,         *)
(* delete_sector and delete_all_sectors is issued with interrupts masked,  *)
(* and when the operation returns the interrupt state is the one it was    *)
(* entered with.                                                           *)
(***************************************************************************)
FlashCallsOf(o) == CallsOf(o, "erase") \cup CallsOf(o, "program")

\* every erase of the log is followed by a program call with no interrupt
\* call in between: the two belong to one critical section
ErasesReprogrammed(o) ==
    \A i \in CallsOf(o, "erase") :
        \E j \in CallsOf(o, "program") :
            /\ j > i
            /\ \A k \in (i + 1) .. (j - 1) : o.calls[k].call \notin {"irq_off", "irq_on"}

C11_CriticalSections ==
    [][ (last' # last /\ pc' # "aborted")
          => /\ \A i \in FlashCallsOf(last') : last'.calls[i].masked
             /\ ErasesReprogrammed(last')
             /\ interrupts' = interrupts
      ]_vars

\* an operation entered with interrupts enabled has erased and programmed
\* and returned with interrupts enabled
C11_Witness ==
    /\ last.op = "erase_physical"
    /\ pc = "ready"
    /\ interrupts
    /\ CallsOf(last, "erase") # {}
    /\ CallsOf(last, "program") # {}

(***************************************************************************)
(* C12.  All writes stay inside the owned address space: every erase and   *)
(* program call issued by init_flash_lib, and by erase_logical_sector and  *)
(* erase_physical_sector with in-range arguments, covers only sectors of   *)
(* [_lower_bound, _upper_bound), and no sector outside it changes.         *)
(* Stated for the runs that use no indeterminate value; the code violates  *)
(* it even there.                                                          *)
(***************************************************************************)
\* the sectors a driver call covers
SectorsOfCall(c) == (c.addr \div FLASH_SECTOR_SIZE) .. ((c.addr + c.len - 1) \div FLASH_SECTOR_SIZE)

C12_WritesStayInside ==
    [][ (/\ last' # last
         /\ last'.op \in {"init", "erase_logical", "erase_physical"}
         /\ pc' = "ready")
          => /\ \A i \in FlashCallsOf(last') :
                  SectorsOfCall(last'.calls[i]) \subseteq Owned(Globals')
             /\ \A s \in AllSectors \ Owned(Globals') : flash'[s] = flash[s]
      ]_vars

(***************************************************************************)
(* C13.  Reader address computation: for a logical id that resolves and a  *)
(* byte offset below group_by * FLASH_SECTOR_SIZE, read_sector returns     *)
(* XIP_BASE + s * FLASH_SECTOR_SIZE + (offset % FLASH_SECTOR_SIZE), s      *)
(* being the sector the sub-sector lookup returns for offset /             *)
(* FLASH_SECTOR_SIZE; with group_by = 1 the address lies inside the        *)
(* sector the id resolves to.                                              *)
(* Stated as the claim states it; the code violates it.                    *)
(***************************************************************************)
C13_ReaderAddress ==
    (/\ last.op = "read"
     /\ Resolves(flash, Globals, last.arg1)
     /\ last.arg2 < _group_by * FLASH_SECTOR_SIZE)
      => LET s == get_physical_sector_from_logical_id(
                      flash, Globals, last.arg1, last.arg2 \div FLASH_SECTOR_SIZE, 0).addr
         IN /\ last.ret = s * FLASH_SECTOR_SIZE + (last.arg2 % FLASH_SECTOR_SIZE)
            /\ _group_by = 1
                 => last.ret \div FLASH_SECTOR_SIZE = Representative(flash, Globals, last.arg1)

(***************************************************************************)
(* C14.  Exhausted address space is surfaced: when every sector of the     *)
(* address space is valid, _get_random_physical_sector reports that no     *)
(* sector is available instead of returning a sector.                      *)
(* Stated as the claim states it; the code violates it.                    *)
(***************************************************************************)
C14_ExhaustionSurfaced ==
    (last.op = "alloc" /\ FreeSectors(flash, Globals) = {})
      => (last.ret = NoSector /\ pc = "ready")

(***************************************************************************)
(* C15.  get_first_sector_from_logical_id(id) succeeds with the lowest     *)
(* group leader (_lower_bound, _lower_bound + _group_by, ... below         *)
(* _upper_bound) that is valid and carries id; it reports not-found        *)
(* exactly when there is no such leader; it issues no flash call and       *)
(* leaves the flash as it is.                                              *)
(***************************************************************************)
MatchingLeaders(f, cfg, id) ==
    { p \in Leaders(cfg) : isValid(f, p) /\ f[p].logicalID = id }

C15_FindRepresentative ==
    [][ (last' # last /\ last'.op = "find")
          => /\ last'.ok <=> MatchingLeaders(flash, Globals, last'.arg1) # {}
             /\ last'.ok => last'.ret = SetMin(MatchingLeaders(flash, Globals, last'.arg1))
             /\ ~last'.ok => last'.ret = NoSector
             /\ last'.calls = << >>
             /\ flash' = flash
      ]_vars

\* two valid leaders carry the id and the lower one, which is not the first
\* sector of the address space, was returned
C15_Witness ==
    /\ last.op = "find"
    /\ last.ok
    /\ last.ret > _lower_bound
    /\ Cardinality(MatchingLeaders(flash, Globals, last.arg1)) > 1

(***************************************************************************)
(* C16.  The sub-sector lookup stays inside the group: when the            *)
(* representative r of id is found and k < _group_by,                      *)
(* get_physical_sector_from_logical_id(id, k) returns a sector of          *)
(* r .. r + _group_by - 1, namely the first one whose id field equals k    *)
(* if there is one.                                                        *)
(* Stated as the claim states it; the code violates it.                    *)
(***************************************************************************)
C16_SubSectorInsideGroup ==
    (/\ last.op = "find_sub"
     /\ Resolves(flash, Globals, last.arg1)
     /\ last.arg2 < _group_by)
      => LET r == Representative(flash, Globals, last.arg1)
             hits == { p \in r .. (r + _group_by - 1) : flash[p].id = last.arg2 }
         IN /\ last.ret \in r .. (r + _group_by - 1)
            /\ hits # {} => last.ret = SetMin(hits)

(***************************************************************************)
(* C17.  Resolution misses are signalled:                                  *)
(* get_physical_sector_from_logical_id(id, k) returns true exactly when a  *)
(* sector of id's group carries sub-sector index k, returns false when id  *)
(* has no representative, and on a miss reads no header through an address *)
(* that was never assigned.                                                *)
(* Stated as the claim states it; the code violates it.                    *)
(***************************************************************************)
C17_MissesSignalled ==
    (last.op = "find_sub")
      => LET first == get_first_sector_from_logical_id(flash, Globals, last.arg1)
             group == IF first.found
                      THEN first.addr .. (first.addr + _group_by - 1) ELSE {}
         IN /\ last.ok <=> \E p \in group : flash[p].id = last.arg2
            /\ pc # "undefined"

(***************************************************************************)
(* C18.  Erase operations are local to their identifier: for resolving     *)
(* ids i # j, erase_logical_sector(j) and erase_physical_sector(j, k)      *)
(* leave the sector i resolves to, and its contents, as they were;         *)
(* erase_logical_sector(j) erases exactly the _group_by sectors from j's   *)
(* representative on and programs header pages only inside that span.      *)
(* Stated as the claim states it; the code violates it.                    *)
(***************************************************************************)
C18_EraseIsLocal ==
    [][ (/\ last' # last
         /\ last'.op \in {"erase_logical", "erase_physical"}
         /\ pc' # "aborted"
         /\ Resolves(flash, Globals, last'.arg1))
          => LET j == last'.arg1
                 r == Representative(flash, Globals, j)
                 span == r .. (r + _group_by - 1)
             IN /\ \A i \in 0 .. (_logical_sectors_count - 1) :
                     (i # j /\ Resolves(flash, Globals, i))
                       => /\ Representative(flash', Globals, i) = Representative(flash, Globals, i)
                          /\ flash'[Representative(flash, Globals, i)]
                               = flash[Representative(flash, Globals, i)]
                /\ last'.op = "erase_logical"
                     => /\ Cardinality(CallsOf(last', "erase")) = 1
                        /\ \A c \in CallsOf(last', "erase") :
                             SectorsOfCall(last'.calls[c]) = span
                        /\ \A c \in CallsOf(last', "program") :
                             SectorsOfCall(last'.calls[c]) \subseteq span
      ]_vars

(***************************************************************************)
(* C19.  delete_sectors(begin, end), delete_sector(p) and                  *)
(* delete_all_sectors().                                                   *)
(***************************************************************************)
\* the sectors [begin, end) of the last delete operation
DeletedRange(o, cfg) ==
    IF o.op = "delete_sector" THEN {o.arg1}
    ELSE IF o.op = "delete_all" THEN Owned(cfg)
    ELSE o.arg1 .. (o.arg2 - 1)

DeleteStep ==
    /\ last' # last
    /\ last'.op \in {"delete_sector", "delete_all", "delete_range"}

\* C19 as claimed: every sector of [begin, end) becomes invalid, its
\* signature is zero and NOTHING else changes: the other header fields and
\* the payload of these sectors keep their contents, as does every other
\* sector.  The code violates it.
C19_DeleteClearsSignatureOnly ==
    [][ DeleteStep =>
          \A s \in AllSectors :
             flash'[s] = IF s \in DeletedRange(last', Globals)
                         THEN [flash[s] EXCEPT !.signature = <<0, 0>>]
                         ELSE flash[s]
      ]_vars

\* C19 as amended: every sector of [begin, end) becomes invalid because its
\* whole header is programmed to zero (signature, logicalID, writeCount and
\* id all read 0 afterwards); the payload of these sectors and every other
\* sector keep their contents; an owned sector that was deleted is what the
\* allocator returns when the random start falls on it.
C19_DeleteClearsHeader ==
    [][ DeleteStep =>
          /\ \A s \in AllSectors :
               flash'[s] = IF s \in DeletedRange(last', Globals)
                           THEN [signature |-> <<0, 0>>, logicalID |-> 0, writeCount |-> 0,
                                 id |-> 0, payload |-> flash[s].payload]
                           ELSE flash[s]
          /\ \A s \in DeletedRange(last', Globals) :
               /\ ~isValid(flash', s)
               /\ s \in Owned(Globals)
                    => _get_random_physical_sector(flash', Globals, s - _lower_bound, 0) = s
      ]_vars

\* a range of two or more sectors was deleted and a valid header outside the
\* range is still there
C19_Witness ==
    /\ last.op = "delete_range"
    /\ last.arg2 - last.arg1 >= 2
    /\ Cardinality(CallsOf(last, "program")) = last.arg2 - last.arg1
    /\ \A s \in DeletedRange(last, Globals) : flash[s].logicalID = 0 /\ ~isValid(flash, s)
    /\ \E s \in BaseSectors \ DeletedRange(last, Globals) :
         isValid(flash, s) /\ flash[s].logicalID > 0

(***************************************************************************)
(* C20.  What init_flash_lib may modify.                                   *)
(***************************************************************************)
InitStep == last' # last /\ last'.op = "init"

\* the sectors that are good for the configuration being installed: a valid
\* signature and a logicalID below the new logical_sectors_count
GoodSectors(f, count) ==
    { s \in DOMAIN f : isValid(f, s) /\ f[s].logicalID < count }

\* the group leaders the validation sweep counts: invalid ones and valid ones
\* whose logicalID is out of range
CountedLeaders(f, cfg) ==
    { p \in Leaders(cfg) : ~isValid(f, p) \/ f[p].logicalID >= cfg.count }

StaleLeaders(f, cfg) ==
    { p \in Leaders(cfg) : isValid(f, p) /\ f[p].logicalID >= cfg.count }

\* the sectors the erase and program calls of an operation cover
SectorsWritten(o) ==
    UNION { SectorsOfCall(o.calls[i]) : i \in FlashCallsOf(o) }

\* the sectors the allocations of an operation were written at: every write
\* at the allocator's return starts with an erase of that sector
SectorsAllocated(o) ==
    UNION { SectorsOfCall(o.calls[i]) : i \in CallsOf(o, "erase") }

\* C20: init_flash_lib never erases or programs a sector that was good when
\* it was called; the sectors it modifies are stale leaders it invalidates
\* and sectors written at the allocator's return; it allocates at most as
\* many times as the sweep counted invalid or invalidated leaders.  The code
\* violates the first part.
C20_GoodSectorsUntouched ==
    [][ InitStep =>
          LET cfg == Config(_lower_bound', _logical_sectors_count', _group_by') IN
          /\ GoodSectors(flash, cfg.count) \cap SectorsWritten(last') = {}
          /\ \A s \in DOMAIN flash :
               (s \in DOMAIN flash' /\ flash'[s] # flash[s])
                  => s \in StaleLeaders(flash, cfg) \cup SectorsAllocated(last')
          /\ SectorsWritten(last') \subseteq StaleLeaders(flash, cfg) \cup SectorsAllocated(last')
          /\ Cardinality(CallsOf(last', "erase")) <= Cardinality(CountedLeaders(flash, cfg))
      ]_vars

\* an initialisation invalidated a stale leader and allocated, and a sector
\* that was good when it was called is still there, not written
C20_Witness ==
    /\ last.op = "init"
    /\ pc = "ready"
    /\ Cardinality(CallsOf(last, "erase")) >= 1
    /\ Cardinality(CallsOf(last, "program")) > Cardinality(CallsOf(last, "erase"))
    /\ GoodSectors(flash, _logical_sectors_count) \ SectorsWritten(last) # {}

(***************************************************************************)
(* C21.  The boot after a power loss.                                      *)
(***************************************************************************)
RebootStep == last.op = "power_loss" /\ last'.op = "init"

\* the valid sectors of the address space that carry id
SectorsOf(f, cfg, id) ==
    { p \in Owned(cfg) : isValid(f, p) /\ f[p].logicalID = id }

InAllocator == pc = "init" /\ frame.at \in {"scan_up", "scan_down"}

\* C22: for every drawn flash, every configuration and every random start,
\* init_flash_lib returns; whenever _get_random_physical_sector runs, some
\* sector of [_lower_bound, _upper_bound) has an invalid signature, the
\* downward scan stays at or above _lower_bound, and the function never falls
\* off its end.
C22_InitTerminates ==
    /\ [](InAllocator => FreeSectorsOf(flash, Globals) # {})
    /\ []((pc = "init" /\ frame.at = "scan_down") => frame.physical_sector \in Owned(Globals))
    /\ [](pc # "undefined")
    /\ (pc = "init") ~> (pc = "ready" /\ last.op = "init")

\* init_flash_lib has returned after allocating every logical id of the
\* largest configuration
C22_Witness ==
    /\ pc = "ready"
    /\ last.op = "init"
    /\ frame = NoFrame
    /\ _logical_sectors_count = MaxCount
    /\ Cardinality(CallsOf(last, "erase")) = MaxCount
    /\ \A id \in 0 .. (MaxCount - 1) : Resolves(flash, Globals, id)

====
